---- MODULE Spec2Model ----
(***************************************************************************)
(* Model of the nutrition engine of mindsetfit (src/nutrition_engine.py).  *)
(*                                                                         *)
(* Python floats are modelled by exact rationals [n, d] in lowest terms,   *)
(* so every arithmetic step is the real-number value of the expression the *)
(* code evaluates; round() is Python's round-half-to-even on that value.   *)
(* Python strings are TLA+ strings; lower(), strip() and the `in`          *)
(* substring test are computed character by character.                     *)
(***************************************************************************)
EXTENDS Integers, Sequences, FiniteSets, TLC

(***************************************************************************)
(* Exact rational arithmetic (the values of Python's float expressions).   *)
(***************************************************************************)
Abs(x) == IF x < 0 THEN -x ELSE x

RECURSIVE Gcd(_, _)
Gcd(a, b) == IF b = 0 THEN a ELSE Gcd(b, a % b)

\* the rational n/d (d # 0) in lowest terms with a positive denominator
Q(n, d) ==
    LET g == Gcd(Abs(n), Abs(d))
        s == IF d < 0 THEN -1 ELSE 1
    IN  [n |-> s * (n \div g), d |-> s * (d \div g)]

I(k) == [n |-> k, d |-> 1]

RAdd(a, b) ==
    LET g == Gcd(a.d, b.d)
    IN  Q(a.n * (b.d \div g) + b.n * (a.d \div g), (a.d \div g) * b.d)

RNeg(a) == [n |-> -a.n, d |-> a.d]

RSub(a, b) == RAdd(a, RNeg(b))

RMul(a, b) ==
    LET g1 == Gcd(Abs(a.n), b.d)
        g2 == Gcd(Abs(b.n), a.d)
    IN  Q((a.n \div g1) * (b.n \div g2), (a.d \div g2) * (b.d \div g1))

\* a / b for b # 0
RDiv(a, b) == RMul(a, Q(b.d, b.n))

\* Python round(x): nearest integer, ties to the even one
Round(a) ==
    LET q == a.n \div a.d
        r == a.n - q * a.d
    IN  IF 2 * r < a.d THEN q
        ELSE IF 2 * r > a.d THEN q + 1
        ELSE IF q % 2 = 0 THEN q ELSE q + 1

(***************************************************************************)
(* Python string operations.                                               *)
(***************************************************************************)
LowerChar(c) ==
    CASE c = "A" -> "a" [] c = "B" -> "b" [] c = "C" -> "c" [] c = "D" -> "d"
      [] c = "E" -> "e" [] c = "F" -> "f" [] c = "G" -> "g" [] c = "H" -> "h"
      [] c = "I" -> "i" [] c = "J" -> "j" [] c = "K" -> "k" [] c = "L" -> "l"
      [] c = "M" -> "m" [] c = "N" -> "n" [] c = "O" -> "o" [] c = "P" -> "p"
      [] c = "Q" -> "q" [] c = "R" -> "r" [] c = "S" -> "s" [] c = "T" -> "t"
      [] c = "U" -> "u" [] c = "V" -> "v" [] c = "W" -> "w" [] c = "X" -> "x"
      [] c = "Y" -> "y" [] c = "Z" -> "z"
      [] c = "Á" -> "á" [] c = "Ã" -> "ã" [] c = "Â" -> "â" [] c = "Ç" -> "ç"
      [] c = "É" -> "é" [] c = "Ê" -> "ê" [] c = "Í" -> "í" [] c = "Ó" -> "ó"
      [] c = "Õ" -> "õ" [] c = "Ô" -> "ô" [] c = "Ú" -> "ú"
      [] OTHER -> c

RECURSIVE Lower(_)
Lower(s) ==
    IF Len(s) = 0 THEN ""
    ELSE LowerChar(SubSeq(s, 1, 1)) \o Lower(SubSeq(s, 2, Len(s)))

\* Python `sub in s`
Contains(sub, s) ==
    \E i \in 1..(Len(s) - Len(sub) + 1) : SubSeq(s, i, i + Len(sub) - 1) = sub

RECURSIVE StripLeft(_)
StripLeft(s) ==
    IF Len(s) > 0 /\ SubSeq(s, 1, 1) = " " THEN StripLeft(SubSeq(s, 2, Len(s)))
    ELSE s

RECURSIVE StripRight(_)
StripRight(s) ==
    IF Len(s) > 0 /\ SubSeq(s, Len(s), Len(s)) = " "
    THEN StripRight(SubSeq(s, 1, Len(s) - 1))
    ELSE s

Strip(s) == StripLeft(StripRight(s))

(***************************************************************************)
(* Basal metabolic rate equations.  A patient p is a record with the       *)
(* fields of Informações_do_Paciente; gordura_corporal is None or a        *)
(* rational percentage.                                                    *)
(***************************************************************************)
None == [none |-> TRUE]

\* mutant: the male constant for every patient
_tmb_mifflin_sem_sexo(p) ==
    RAdd(RSub(RAdd(RMul(I(10), p.peso), RMul(Q(625, 100), p.altura)),
              RMul(I(5), I(p.idade))), I(5))

_tmb_mifflin(p) ==
    IF Lower(p.sexo) = "masculino"
    THEN RAdd(RSub(RAdd(RMul(I(10), p.peso), RMul(Q(625, 100), p.altura)),
                   RMul(I(5), I(p.idade))), I(5))
    ELSE RSub(RSub(RAdd(RMul(I(10), p.peso), RMul(Q(625, 100), p.altura)),
                   RMul(I(5), I(p.idade))), I(161))

_tmb_harris_benedict(p) ==
    IF Lower(p.sexo) = "masculino"
    THEN RSub(RAdd(RAdd(Q(88362, 1000), RMul(Q(13397, 1000), p.peso)),
                   RMul(Q(4799, 1000), p.altura)),
              RMul(Q(5677, 1000), I(p.idade)))
    ELSE RSub(RAdd(RAdd(Q(447593, 1000), RMul(Q(9247, 1000), p.peso)),
                   RMul(Q(3098, 1000), p.altura)),
              RMul(Q(4330, 1000), I(p.idade)))

_tmb_owen(p) ==
    IF Lower(p.sexo) = "masculino"
    THEN RAdd(I(879), RMul(Q(102, 10), p.peso))
    ELSE RAdd(I(795), RMul(Q(718, 100), p.peso))

_tmb_cunningham(p) ==
    IF p.gordura_corporal = None
    THEN _tmb_mifflin(p)
    ELSE LET massa_magra ==
                 RMul(p.peso, RSub(I(1), RDiv(p.gordura_corporal, I(100))))
         IN  RAdd(I(500), RMul(I(22), massa_magra))

\* mutant: an unknown identifier falls to Harris-Benedict
calcular_tmb_equacao_sem_padrao(p, equacao) ==
    LET eq == Lower(equacao)
    IN  IF eq = "mifflin" THEN _tmb_mifflin(p)
        ELSE IF eq = "harris-benedict" THEN _tmb_harris_benedict(p)
        ELSE IF eq = "owen" THEN _tmb_owen(p)
        ELSE IF eq = "cunningham" THEN _tmb_cunningham(p)
        ELSE _tmb_harris_benedict(p)

calcular_tmb_equacao(p, equacao) ==
    LET eq == Lower(equacao)
    IN  IF eq = "mifflin" THEN _tmb_mifflin(p)
        ELSE IF eq = "harris-benedict" THEN _tmb_harris_benedict(p)
        ELSE IF eq = "owen" THEN _tmb_owen(p)
        ELSE IF eq = "cunningham" THEN _tmb_cunningham(p)
        ELSE _tmb_mifflin(p)

calcular_tmb_todas_equacoes(p) ==
    [mifflin    |-> Round(_tmb_mifflin(p)),
     harris     |-> Round(_tmb_harris_benedict(p)),
     owen       |-> Round(_tmb_owen(p)),
     cunningham |-> Round(_tmb_cunningham(p))]

(***************************************************************************)
(* Activity factor, goal adjustment, daily macros, meal distribution.      *)
(***************************************************************************)
\* mutant: an unknown level gets the moderate factor
fator_atividade_padrao_moderado(nivel) ==
    LET n == Lower(nivel)
    IN  CASE n = "sedentário"          -> Q(12, 10)
          [] n = "sedentario"          -> Q(12, 10)
          [] n = "levemente ativo"     -> Q(1375, 1000)
          [] n = "moderadamente ativo" -> Q(155, 100)
          [] n = "muito ativo"         -> Q(1725, 1000)
          [] n = "extremamente ativo"  -> Q(19, 10)
          [] OTHER                     -> Q(155, 100)

fator_atividade(nivel) ==
    LET n == Lower(nivel)
    IN  CASE n = "sedentário"          -> Q(12, 10)
          [] n = "sedentario"          -> Q(12, 10)
          [] n = "levemente ativo"     -> Q(1375, 1000)
          [] n = "moderadamente ativo" -> Q(155, 100)
          [] n = "muito ativo"         -> Q(1725, 1000)
          [] n = "extremamente ativo"  -> Q(19, 10)
          [] OTHER                     -> Q(12, 10)

\* mutant: the "perda" keyword is not recognised
ajustar_por_objetivo_sem_perda(tdee, objetivo) ==
    LET obj == Lower(objetivo)
    IN  IF Contains("emagrec", obj)
        THEN RMul(tdee, Q(8, 10))
        ELSE IF Contains("ganho", obj) \/ Contains("hipertrofia", obj)
        THEN RMul(tdee, Q(11, 10))
        ELSE tdee

ajustar_por_objetivo(tdee, objetivo) ==
    LET obj == Lower(objetivo)
    IN  IF Contains("emagrec", obj) \/ Contains("perda", obj)
        THEN RMul(tdee, Q(8, 10))
        ELSE IF Contains("ganho", obj) \/ Contains("hipertrofia", obj)
        THEN RMul(tdee, Q(11, 10))
        ELSE tdee

\* mutant: fat converted at 4 kcal/g
gerar_macros_gordura_4(kcal_dia) ==
    LET prot_kcal == RMul(kcal_dia, Q(30, 100))
        carb_kcal == RMul(kcal_dia, Q(45, 100))
        gord_kcal == RMul(kcal_dia, Q(25, 100))
    IN  [kcal       |-> Round(kcal_dia),
         proteina_g |-> Round(RDiv(prot_kcal, I(4))),
         carbo_g    |-> Round(RDiv(carb_kcal, I(4))),
         gordura_g  |-> Round(RDiv(gord_kcal, I(4)))]

gerar_macros(kcal_dia) ==
    LET prot_kcal == RMul(kcal_dia, Q(30, 100))
        carb_kcal == RMul(kcal_dia, Q(45, 100))
        gord_kcal == RMul(kcal_dia, Q(25, 100))
    IN  [kcal       |-> Round(kcal_dia),
         proteina_g |-> Round(RDiv(prot_kcal, I(4))),
         carbo_g    |-> Round(RDiv(carb_kcal, I(4))),
         gordura_g  |-> Round(RDiv(gord_kcal, I(9)))]

\* mutant: the supper takes 15% (the shares sum to 105%)
esquema_ceia_15 ==
    << <<"Café da manhã",   Q(20, 100)>>,
       <<"Lanche da manhã", Q(10, 100)>>,
       <<"Almoço",          Q(30, 100)>>,
       <<"Lanche da tarde", Q(10, 100)>>,
       <<"Jantar",          Q(20, 100)>>,
       <<"Ceia",            Q(15, 100)>> >>

\* mutant: lunch and dinner swapped (the shares still sum to 100%)
esquema_jantar_antes ==
    << <<"Café da manhã",   Q(20, 100)>>,
       <<"Lanche da manhã", Q(10, 100)>>,
       <<"Jantar",          Q(20, 100)>>,
       <<"Lanche da tarde", Q(10, 100)>>,
       <<"Almoço",          Q(30, 100)>>,
       <<"Ceia",            Q(10, 100)>> >>

esquema ==
    << <<"Café da manhã",   Q(20, 100)>>,
       <<"Lanche da manhã", Q(10, 100)>>,
       <<"Almoço",          Q(30, 100)>>,
       <<"Lanche da tarde", Q(10, 100)>>,
       <<"Jantar",          Q(20, 100)>>,
       <<"Ceia",            Q(10, 100)>> >>

\* distribuir_por_refeicao with the share of each meal truncated (int) and not
\* rounded
distribuir_por_refeicao_int(macros) ==
    [i \in 1..Len(esquema) |->
        LET nome == esquema[i][1]
            frac == esquema[i][2]
            int(x) == IF x.n >= 0 THEN x.n \div x.d ELSE 0 - ((0 - x.n) \div x.d)
        IN  [refeicao   |-> nome,
             fracao     |-> frac,
             kcal       |-> int(RMul(I(macros.kcal), frac)),
             proteina_g |-> int(RMul(I(macros.proteina_g), frac)),
             carbo_g    |-> int(RMul(I(macros.carbo_g), frac)),
             gordura_g  |-> int(RMul(I(macros.gordura_g), frac))]]

distribuir_por_refeicao(macros) ==
    [i \in 1..Len(esquema) |->
        LET nome == esquema[i][1]
            frac == esquema[i][2]
        IN  [refeicao   |-> nome,
             fracao     |-> frac,
             kcal       |-> Round(RMul(I(macros.kcal), frac)),
             proteina_g |-> Round(RMul(I(macros.proteina_g), frac)),
             carbo_g    |-> Round(RMul(I(macros.carbo_g), frac)),
             gordura_g  |-> Round(RMul(I(macros.gordura_g), frac))]]

(***************************************************************************)
(* The food table.  A DataFrame is [cols, rows]: the header names and the  *)
(* rows, each a sequence of cells aligned with cols.  A cell is            *)
(* [t |-> "str", v |-> text], [t |-> "num", v |-> integer] or NaN (an      *)
(* empty cell).  Text cells hold non-numeric text.                         *)
(***************************************************************************)
NaN == [t |-> "nan"]
Str(s) == [t |-> "str", v |-> s]
Num(k) == [t |-> "num", v |-> k]

\* position of the first column called c
ColIndex(cols, c) == CHOOSE i \in 1..Len(cols) : cols[i] = c /\ \A j \in 1..(i - 1) : cols[j] # c

\* row[c]
Cell(df, row, c) == row[ColIndex(df.cols, c)]

\* next((c for c in cols if pred(c)), default), with hit[i] = pred(cols[i])
FirstCol(cols, hit, default) ==
    IF \E i \in 1..Len(cols) : hit[i]
    THEN cols[CHOOSE i \in 1..Len(cols) : hit[i] /\ \A j \in 1..(i - 1) : ~hit[j]]
    ELSE default

\* self.df_alimentos.columns = [c.strip().lower() for c in ...]
NormalizarColunas(df) ==
    [cols |-> [i \in 1..Len(df.cols) |-> Lower(Strip(df.cols[i]))], rows |-> df.rows]

IsNomeCol(c) ==
    \/ Contains("alimento", c) \/ Contains("descr", c) \/ Contains("descricao", c)
    \/ Contains("descrição", c) \/ Contains("nome", c)
IsKcalCol(c) == Contains("kcal", c) \/ Contains("energia", c)
IsProtCol(c) == Contains("prot", c)
IsCarbCol(c) == Contains("carb", c) \/ Contains("cho", c)
IsGordCol(c) == Contains("gord", c) \/ Contains("lip", c)

\* Python's None for a column name: the empty name matches no pattern, so it
\* is never the name of a column that was found
NoCol == ""

\* _mapear_colunas with the first column as the default of the fat column
_mapear_colunas_gord_padrao(df) ==
    LET cols == df.cols
        n == Len(cols)
    IN  [nome |-> FirstCol(cols, [i \in 1..n |-> IsNomeCol(cols[i])], cols[1]),
         kcal |-> FirstCol(cols, [i \in 1..n |-> IsKcalCol(cols[i])], NoCol),
         prot |-> FirstCol(cols, [i \in 1..n |-> IsProtCol(cols[i])], NoCol),
         carb |-> FirstCol(cols, [i \in 1..n |-> IsCarbCol(cols[i])], NoCol),
         gord |-> FirstCol(cols, [i \in 1..n |-> IsGordCol(cols[i])], cols[1])]

\* the five mapped column names; a nutrient column that is not found is NoCol
_mapear_colunas(df) ==
    LET cols == df.cols
        n == Len(cols)
    IN  [nome |-> FirstCol(cols, [i \in 1..n |-> IsNomeCol(cols[i])], cols[1]),
         kcal |-> FirstCol(cols, [i \in 1..n |-> IsKcalCol(cols[i])], NoCol),
         prot |-> FirstCol(cols, [i \in 1..n |-> IsProtCol(cols[i])], NoCol),
         carb |-> FirstCol(cols, [i \in 1..n |-> IsCarbCol(cols[i])], NoCol),
         gord |-> FirstCol(cols, [i \in 1..n |-> IsGordCol(cols[i])], NoCol)]

\* the condition under which _mapear_colunas raises ValueError
MapeamentoFalha(m) ==
    m.kcal = NoCol \/ m.prot = NoCol \/ m.carb = NoCol \/ m.gord = NoCol

\* pd.to_numeric(cell, errors="coerce")
to_numeric(cell) == IF cell.t = "num" THEN cell ELSE NaN

\* stable sort of keyed rows [k, r] by descending key k
RECURSIVE InsertDesc(_, _)
InsertDesc(sorted, e) ==
    IF Len(sorted) = 0 THEN <<e>>
    ELSE IF Head(sorted).k >= e.k
         THEN <<Head(sorted)>> \o InsertDesc(Tail(sorted), e)
         ELSE <<e>> \o sorted

RECURSIVE SortKeyed(_)
SortKeyed(es) ==
    IF Len(es) = 0 THEN <<>>
    ELSE InsertDesc(SortKeyed(SubSeq(es, 1, Len(es) - 1)), es[Len(es)])

\* rows.sort_values(col, ascending=False), with keys[i] = rows[i][col]; rows
\* with equal keys keep the order of the table
SortDesc(rows, keys) ==
    LET keyed == [i \in 1..Len(rows) |-> [k |-> keys[i], r |-> rows[i]]]
        sorted == SortKeyed(keyed)
    IN  [i \in 1..Len(rows) |-> sorted[i].r]

_preparar_listas_alimentos(df, col) ==
    LET numericas == {col.kcal, col.prot, col.carb, col.gord}
        conv == [i \in 1..Len(df.rows) |->
                    [j \in 1..Len(df.cols) |->
                        IF df.cols[j] \in numericas
                        THEN to_numeric(df.rows[i][j]) ELSE df.rows[i][j]]]
        completa(r) == \A c \in numericas : Cell(df, r, c) # NaN
        limpas == SelectSeq(conv, completa)
        prot(r) == Cell(df, r, col.prot).v
        carb(r) == Cell(df, r, col.carb).v
        gord(r) == Cell(df, r, col.gord).v
        eh_proteina(r) == prot(r) >= 8 /\ prot(r) > carb(r) /\ prot(r) >= gord(r)
        eh_carbo(r)    == carb(r) >= 8 /\ carb(r) > prot(r) /\ carb(r) >= gord(r)
        eh_gordura(r)  == gord(r) >= 5 /\ gord(r) > prot(r) /\ gord(r) > carb(r)
        sel_p == SelectSeq(limpas, eh_proteina)
        sel_c == SelectSeq(limpas, eh_carbo)
        sel_g == SelectSeq(limpas, eh_gordura)
    IN  [proteina |-> SortDesc(sel_p, [i \in 1..Len(sel_p) |-> prot(sel_p[i])]),
         carbo    |-> SortDesc(sel_c, [i \in 1..Len(sel_c) |-> carb(sel_c[i])]),
         gordura  |-> SortDesc(sel_g, [i \in 1..Len(sel_g) |-> gord(sel_g[i])])]

(***************************************************************************)
(* Meal suggestions.  An engine is [df_alimentos, col, fontes].  The text  *)
(* returned by _combo_para_refeicao is [tipo, linhas]: "generico" and      *)
(* "manual" are the two fixed texts, "itens" is the list of bullet lines,  *)
(* each [gramas, nome, papel].                                             *)
(***************************************************************************)
\* mutant: no lower clamp
limitar_gramas_sem_minimo(g) ==
    IF g <= 0 THEN 0
    ELSE IF g < 200 THEN g ELSE 200

limitar_gramas(g) ==
    IF g <= 0 THEN 0
    ELSE LET m == IF g < 200 THEN g ELSE 200
         IN  IF m > 20 THEN m ELSE 20

_combo_para_refeicao(eng, alvo_prot, alvo_carb, alvo_gord) ==
    IF Len(eng.fontes.proteina) = 0 \/ Len(eng.fontes.carbo) = 0
    THEN [tipo |-> "generico", linhas |-> <<>>]
    ELSE
    LET df == eng.df_alimentos
        col == eng.col
        prot_row == eng.fontes.proteina[1]
        carb_row == eng.fontes.carbo[1]
        tem_gord == Len(eng.fontes.gordura) # 0
        gord_row == IF tem_gord THEN eng.fontes.gordura[1] ELSE None
        nome_p == Cell(df, prot_row, col.nome)
        p_prot == Cell(df, prot_row, col.prot).v
        nome_c == Cell(df, carb_row, col.nome)
        c_carb == Cell(df, carb_row, col.carb).v
        nome_g == IF tem_gord THEN Cell(df, gord_row, col.nome) ELSE None
        g_gord == IF tem_gord THEN Cell(df, gord_row, col.gord).v ELSE 0
        gr_p0 == IF p_prot > 0
                 THEN Round(RDiv(RMul(alvo_prot, Q(7, 10)), Q(p_prot, 100))) ELSE 0
        gr_c0 == IF c_carb > 0
                 THEN Round(RDiv(RMul(alvo_carb, Q(7, 10)), Q(c_carb, 100))) ELSE 0
        gr_g0 == IF nome_g # None /\ g_gord > 0
                 THEN Round(RDiv(RMul(alvo_gord, Q(7, 10)), Q(g_gord, 100))) ELSE 0
        gr_p == limitar_gramas(gr_p0)
        gr_c == limitar_gramas(gr_c0)
        gr_g == limitar_gramas(gr_g0)
        linhas ==
            (IF gr_p > 0
             THEN <<[gramas |-> gr_p, nome |-> nome_p, papel |-> "proteina"]>> ELSE <<>>)
            \o (IF gr_c > 0
                THEN <<[gramas |-> gr_c, nome |-> nome_c, papel |-> "carbo"]>> ELSE <<>>)
            \o (IF nome_g # None /\ gr_g > 0
                THEN <<[gramas |-> gr_g, nome |-> nome_g, papel |-> "gordura"]>> ELSE <<>>)
    IN  IF Len(linhas) = 0
        THEN [tipo |-> "manual", linhas |-> <<>>]
        ELSE [tipo |-> "itens", linhas |-> linhas]

\* mutant: the fat target is not handed to _combo_para_refeicao
sugerir_receitas_sem_gordura(eng, objetivo, refeicoes) ==
    LET obj == Lower(objetivo)
        foco == IF Contains("emagrec", obj) THEN "reducao"
                ELSE IF Contains("ganho", obj) THEN "densidade"
                ELSE "equilibrio"
    IN  [i \in 1..Len(refeicoes) |->
            LET ref == refeicoes[i]
            IN  [refeicao |-> ref.refeicao,
                 prot_ref |-> ref.proteina_g,
                 carb_ref |-> ref.carbo_g,
                 gord_ref |-> ref.gordura_g,
                 foco     |-> foco,
                 combo    |-> _combo_para_refeicao(eng, I(ref.proteina_g),
                                  I(ref.carbo_g), I(0))]]

\* one entry per meal, in the order of refeicoes (the dict's insertion order)
sugerir_receitas(eng, objetivo, refeicoes) ==
    LET obj == Lower(objetivo)
        foco == IF Contains("emagrec", obj) THEN "reducao"
                ELSE IF Contains("ganho", obj) THEN "densidade"
                ELSE "equilibrio"
    IN  [i \in 1..Len(refeicoes) |->
            LET ref == refeicoes[i]
            IN  [refeicao |-> ref.refeicao,
                 prot_ref |-> ref.proteina_g,
                 carb_ref |-> ref.carbo_g,
                 gord_ref |-> ref.gordura_g,
                 foco     |-> foco,
                 combo    |-> _combo_para_refeicao(eng, I(ref.proteina_g),
                                  I(ref.carbo_g), I(ref.gordura_g))]]

\* the locals of gerar_plano (tmb, fator, tdee_exato, kcal_ajustada) and the
\* dict it returns (the other fields)
gerar_plano(eng, paciente, equacao_principal) ==
    LET tmb_principal == calcular_tmb_equacao(paciente, equacao_principal)
        tmb_equacoes == calcular_tmb_todas_equacoes(paciente)
        fator == fator_atividade(paciente.nivel_atividade)
        tdee == RMul(tmb_principal, fator)
        kcal_ajustada == ajustar_por_objetivo(tdee, paciente.objetivo)
        macros == gerar_macros(kcal_ajustada)
        refeicoes == distribuir_por_refeicao(macros)
        receitas == sugerir_receitas(eng, paciente.objetivo, refeicoes)
    IN  [tmb           |-> tmb_principal,
         fator         |-> fator,
         tdee_exato    |-> tdee,
         kcal_ajustada |-> kcal_ajustada,
         tmb_principal |-> Round(tmb_principal),
         tmb_equacoes  |-> tmb_equacoes,
         tdee          |-> Round(tdee),
         kcal_objetivo |-> Round(kcal_ajustada),
         macros        |-> macros,
         refeicoes     |-> refeicoes,
         receitas      |-> receitas]

(***************************************************************************)
(* utils/loader.py.  The table is the one pd.read_csv returned for the     *)
(* file.                                                                   *)
(***************************************************************************)
\* the canonical names in the order of the dictionary, each with its options
map_cols ==
    << [final |-> "kcal",     options |-> {"kcal", "energia", "calorias", "energy"}],
       [final |-> "proteina", options |-> {"proteina", "protein", "proteínas"}],
       [final |-> "carbo",    options |-> {"carbo", "carboidrato", "carboidratos", "carb"}],
       [final |-> "gordura",  options |-> {"gordura", "lipideos", "gorduras", "fat"}] >>

\* found = [c for c in df.columns if c in options]
found(cols, options) == SelectSeq(cols, LAMBDA c : c \in options)

\* df.rename(columns=mapping): a column whose name is a key of the mapping
\* gets the value of that key as its name, every other column keeps its name
rename(df, mapping) ==
    [cols |-> [i \in 1..Len(df.cols) |->
                  IF df.cols[i] \in DOMAIN mapping THEN mapping[df.cols[i]]
                  ELSE df.cols[i]],
     rows |-> df.rows]

\* the table load_taco_database returns, or the exception it raises for the
\* first canonical name without a column; the header is stripped and
\* lower-cased first, and final_cols has the canonical names as its keys
load_taco_database(lido) ==
    LET df == NormalizarColunas(lido)
        faltam == {k \in 1..Len(map_cols) : Len(found(df.cols, map_cols[k].options)) = 0}
    IN  IF faltam # {}
        THEN [ok |-> FALSE,
              erro |-> "Erro ao carregar banco TACO",
              coluna |-> map_cols[CHOOSE k \in faltam : \A j \in faltam : k <= j].final]
        ELSE LET final_cols ==
                     [final \in {map_cols[k].final : k \in 1..Len(map_cols)} |->
                         LET k == CHOOSE k \in 1..Len(map_cols) : map_cols[k].final = final
                         IN  found(df.cols, map_cols[k].options)[1]]
             IN  [ok |-> TRUE, df |-> rename(df, final_cols)]

(***************************************************************************)
(* Inputs.                                                                 *)
(***************************************************************************)
MaxRows == 3
MaxKcal == 60
MaxEntre == 2

\* the layouts of a table: the header names and, for each, the column of the
\* pool row it holds; the last four lack the energy, the protein, the
\* carbohydrate or the fat column
Formatos ==
    { [cols |-> <<"Alimento", "Energia (kcal)", "Proteína (g)", "Carboidrato (g)", "Lipídeos (g)">>,
       idx  |-> <<1, 2, 3, 4, 5>>],
      [cols |-> <<" Nome ", "KCAL", "prot", "cho", "Gordura">>,
       idx  |-> <<1, 2, 3, 4, 5>>],
      [cols |-> <<"Alimento", "Proteína (g)", "Carboidrato (g)", "Lipídeos (g)">>,
       idx  |-> <<1, 3, 4, 5>>],
      [cols |-> <<"Alimento", "Energia (kcal)", "Carboidrato (g)", "Lipídeos (g)">>,
       idx  |-> <<1, 2, 4, 5>>],
      [cols |-> <<"Alimento", "Energia (kcal)", "Proteína (g)", "Lipídeos (g)">>,
       idx  |-> <<1, 2, 3, 5>>],
      [cols |-> <<"Alimento", "Energia (kcal)", "Proteína (g)", "Carboidrato (g)">>,
       idx  |-> <<1, 2, 3, 4>>] }

\* the pool of table rows: name, energy, protein, carbohydrate, fat per 100 g
Alimentos ==
    << <<Str("Frango grelhado"), Num(159), Num(32), Num(0), Num(3)>>,
       <<Str("Arroz cozido"), Num(128), Num(3), Num(28), Num(0)>>,
       <<Str("Azeite de oliva"), Num(884), Num(0), Num(0), Num(100)>>,
       <<Str("Atum sem energia"), Num(0), Num(26), Num(0), Num(1)>>,
       <<Str("Aveia"), NaN, Num(14), Num(66), Num(8)>>,
       <<Str("Xarope"), Num(0 - 10), Num(0), Num(70), Num(0)>>,
       <<Str("Castanha"), Str("Tr"), Num(14), Num(15), Num(63)>> >>

\* the tables with at most MaxRows rows of the pool, in pool order
IndicesCrescentes ==
    {is \in UNION {[1..k -> 1..Len(Alimentos)] : k \in 0..MaxRows} :
        \A i \in 1..(Len(is) - 1) : is[i] < is[i + 1]}

\* the table of layout f with the pool rows is
Tabela(f, is) ==
    [cols |-> f.cols,
     rows |-> [i \in 1..Len(is) |-> [j \in 1..Len(f.idx) |-> Alimentos[is[i]][f.idx[j]]]]]

Tabelas == {Tabela(f, is) : f \in Formatos, is \in IndicesCrescentes}

Medidas ==
    { [idade |-> 30, peso |-> I(80), altura |-> I(178)],
      [idade |-> 61, peso |-> Q(125, 2), altura |-> I(160)] }

Sexos == {"masculino", "feminino", "Masculino"}
Gorduras == {None, I(20), Q(25, 2)}
Niveis ==
    {"Sedentário", "sedentario", "Levemente ativo", "Moderadamente ativo",
     "Muito ativo", "Extremamente ativo", "Atleta"}
Objetivos ==
    {"Emagrecimento", "Manutenção", "Ganho de massa", "HIPERTROFIA",
     "Perda de peso", "Recomposição corporal"}
Equacoes == {"mifflin", "Harris-Benedict", "owen", "cunningham", "katch-mcardle", ""}

Paciente(m, sexo, gc, nivel, objetivo) ==
    [nome |-> "Paciente Teste", idade |-> m.idade, sexo |-> sexo, peso |-> m.peso,
     altura |-> m.altura, nivel_atividade |-> nivel, objetivo |-> objetivo,
     gordura_corporal |-> gc]

\* the patients of the direct calls of calcular_tmb_equacao
PacientesTmb ==
    {Paciente(m, s, g, "Sedentário", "Manutenção") : m \in Medidas, s \in Sexos, g \in Gorduras}

\* the patients of gerar_plano: every activity level with one goal and every
\* goal with one activity level
NivelObjetivo ==
    {<<n, "Emagrecimento">> : n \in Niveis} \cup {<<"Sedentário", o>> : o \in Objetivos}

PacientesPlano ==
    {Paciente([idade |-> 30, peso |-> I(80), altura |-> I(178)], s, I(20), no[1], no[2]) :
        s \in {"masculino", "feminino"}, no \in NivelObjetivo}

EquacoesPlano == {"mifflin", "cunningham", "katch-mcardle"}

\* Harris-Benedict has three-decimal coefficients: it is the principal
\* equation of a plan only with the factors that keep the exact values
\* within TLC's integers
PacientesPlanoHarris ==
    {p \in PacientesPlano :
        /\ p.nivel_atividade \in {"Sedentário", "Atleta"}
        /\ p.objetivo \in {"Emagrecimento", "Manutenção"}}

EntradasPlano ==
    (PacientesPlano \X EquacoesPlano) \cup (PacientesPlanoHarris \X {"harris-benedict"})

\* the files read by load_taco_database: the canonical names, synonyms, a
\* synonym before the canonical name, the names with units, and no fat column
FormatosTaco ==
    { [cols |-> <<"alimento", "kcal", "proteina", "carbo", "gordura">>,
       idx  |-> <<1, 2, 3, 4, 5>>],
      [cols |-> <<"Alimento", "Energia", "Protein", "Carboidratos", "Fat">>,
       idx  |-> <<1, 2, 3, 4, 5>>],
      [cols |-> <<"Alimento", " Energia ", "kcal", "proteínas", "carb", "lipideos">>,
       idx  |-> <<1, 2, 2, 3, 4, 5>>],
      [cols |-> <<"Alimento", "Energia (kcal)", "Proteína (g)", "Carboidrato (g)", "Lipídeos (g)">>,
       idx  |-> <<1, 2, 3, 4, 5>>],
      [cols |-> <<"Alimento", "kcal", "proteina", "carbo">>,
       idx  |-> <<1, 2, 3, 4>>] }

TabelasTaco == {Tabela(f, is) : f \in FormatosTaco, is \in IndicesCrescentes}

\* the inputs of the plans whose history is kept
EntradasHistorico ==
    {e \in EntradasPlano :
        /\ e[1].sexo = "masculino"
        /\ e[1].nivel_atividade \in {"Sedentário", "Muito ativo"}
        /\ e[1].objetivo = "Emagrecimento"
        /\ e[2] \in {"mifflin", "cunningham"}}

Tdees == {I(0), I(2121), Q(38437, 16), RNeg(I(300))}
KcalDias == {Q(k, 2) : k \in (0 - 6)..(2 * MaxKcal)} \cup {Q(16968, 10), Q(267334375, 100000)}
Alvos == {I(0 - 3), I(0), I(1), I(40), Q(251, 2)}

(***************************************************************************)
(* The state: the table the caller loaded and hands to the constructor,    *)
(* the engine built from it, and the last call with what it returned.      *)
(***************************************************************************)
\* anterior and entre are history: the first plan that was generated, with
\* its inputs, and the number of plans generated after it
VARIABLES estado, df_entrada, engine, chamada, retorno, anterior, entre
vars == <<estado, df_entrada, engine, chamada, retorno, anterior, entre>>

Init ==
    /\ estado = "inicio"
    /\ df_entrada = None
    /\ engine = None
    /\ chamada = [op |-> "nenhuma"]
    /\ retorno = None
    /\ anterior = None
    /\ entre = 0

\* carregar_banco_de_dados_de_alimentos: the caller reads the CSV file into
\* its own table
Carregar(df) ==
    /\ estado = "inicio"
    /\ chamada.op = "nenhuma"
    /\ estado' = "carregado"
    /\ df_entrada' = df
    /\ UNCHANGED <<engine, chamada, retorno, anterior, entre>>

\* the constructor without the copy: the header of the caller's table is
\* normalised in place
Construir_sem_copia ==
    /\ estado = "carregado"
    /\ LET copia == NormalizarColunas(df_entrada)
           col == _mapear_colunas(copia)
       IN  /\ df_entrada' = copia
           /\ IF MapeamentoFalha(col)
              THEN /\ estado' = "erro"
                   /\ engine' = None
              ELSE /\ estado' = "pronto"
                   /\ engine' = [df_alimentos |-> copia, col |-> col,
                                 fontes |-> _preparar_listas_alimentos(copia, col)]
    /\ UNCHANGED <<chamada, retorno, anterior, entre>>

\* load_taco_database(path), with lido the table read from the file
LoadTacoDatabase(lido) ==
    /\ estado = "inicio"
    /\ chamada.op = "nenhuma"
    /\ chamada' = [op |-> "load_taco_database", lido |-> lido]
    /\ retorno' = load_taco_database(lido)
    /\ UNCHANGED <<estado, df_entrada, engine, anterior, entre>>

\* NutritionEngine(df_entrada): __init__ copies the caller's table, normalises
\* the header of the copy, maps the columns (raising ValueError when a
\* nutrient column is missing) and builds the source lists
Construir ==
    /\ estado = "carregado"
    /\ LET copia == NormalizarColunas(df_entrada)
           col == _mapear_colunas(copia)
       IN  IF MapeamentoFalha(col)
           THEN /\ estado' = "erro"
                /\ engine' = None
           ELSE /\ estado' = "pronto"
                /\ engine' = [df_alimentos |-> copia, col |-> col,
                              fontes |-> _preparar_listas_alimentos(copia, col)]
    /\ UNCHANGED <<df_entrada, chamada, retorno, anterior, entre>>

CalcularTmbEquacao(p, equacao) ==
    /\ estado = "pronto"
    /\ chamada.op = "nenhuma"
    /\ chamada' = [op |-> "calcular_tmb_equacao", p |-> p, equacao |-> equacao]
    /\ retorno' = calcular_tmb_equacao(p, equacao)
    /\ UNCHANGED <<estado, df_entrada, engine, anterior, entre>>

AjustarPorObjetivo(tdee, objetivo) ==
    /\ estado = "pronto"
    /\ chamada.op = "nenhuma"
    /\ chamada' = [op |-> "ajustar_por_objetivo", tdee |-> tdee, objetivo |-> objetivo]
    /\ retorno' = ajustar_por_objetivo(tdee, objetivo)
    /\ UNCHANGED <<estado, df_entrada, engine, anterior, entre>>

GerarMacros(kcal_dia) ==
    /\ estado = "pronto"
    /\ chamada.op = "nenhuma"
    /\ chamada' = [op |-> "gerar_macros", kcal_dia |-> kcal_dia]
    /\ retorno' = gerar_macros(kcal_dia)
    /\ UNCHANGED <<estado, df_entrada, engine, anterior, entre>>

ComboParaRefeicao(alvo_prot, alvo_carb, alvo_gord) ==
    /\ estado = "pronto"
    /\ chamada.op = "nenhuma"
    /\ chamada' = [op |-> "_combo_para_refeicao", alvo_prot |-> alvo_prot,
                   alvo_carb |-> alvo_carb, alvo_gord |-> alvo_gord]
    /\ retorno' = _combo_para_refeicao(engine, alvo_prot, alvo_carb, alvo_gord)
    /\ UNCHANGED <<estado, df_entrada, engine, anterior, entre>>

\* the engine after gerar_plano with the first protein source used up
engine_apos_plano_consome(eng) ==
    [eng EXCEPT !.fontes.proteina =
        IF Len(@) = 0 THEN @ ELSE Tail(@)]

\* the engine after gerar_plano: the method and the methods it calls read
\* df_alimentos, the column names and the source lists and assign none of them
engine_apos_plano(eng) == eng

\* distribuir_por_refeicao(gerar_macros(kcal_dia))
DistribuirPorRefeicao(kcal_dia) ==
    /\ estado = "pronto"
    /\ chamada.op = "nenhuma"
    /\ chamada' = [op |-> "distribuir_por_refeicao", macros |-> gerar_macros(kcal_dia)]
    /\ retorno' = distribuir_por_refeicao(gerar_macros(kcal_dia))
    /\ UNCHANGED <<estado, df_entrada, engine, anterior, entre>>

\* resultado = engine.gerar_plano(p, equacao)
ChamarGerarPlano(p, equacao) ==
    /\ estado = "pronto"
    /\ chamada.op = "nenhuma"
    /\ chamada' = [op |-> "gerar_plano", p |-> p, equacao |-> equacao]
    /\ retorno' = gerar_plano(engine, p, equacao)
    /\ engine' = engine_apos_plano(engine)
    /\ UNCHANGED <<estado, df_entrada>>

GerarPlano(p, equacao) ==
    /\ ChamarGerarPlano(p, equacao)
    /\ UNCHANGED <<anterior, entre>>

\* gerar_plano with the history kept: the first plan is remembered, the later
\* ones are counted
GerarPlanoLembrando(p, equacao) ==
    /\ anterior = None \/ entre < MaxEntre
    /\ ChamarGerarPlano(p, equacao)
    /\ IF anterior = None
       THEN /\ anterior' = [p |-> p, equacao |-> equacao, plano |-> retorno']
            /\ entre' = 0
       ELSE /\ anterior' = anterior
            /\ entre' = entre + 1

\* the caller drops the returned value; the engine is ready for the next call
Retornar ==
    /\ chamada.op # "nenhuma"
    /\ chamada' = [op |-> "nenhuma"]
    /\ retorno' = None
    /\ UNCHANGED <<estado, df_entrada, engine, anterior, entre>>

Next ==
    \/ \E df \in Tabelas : Carregar(df)
    \/ \E lido \in TabelasTaco : LoadTacoDatabase(lido)
    \/ Construir
    \/ \E p \in PacientesTmb, eq \in Equacoes : CalcularTmbEquacao(p, eq)
    \/ \E t \in Tdees, o \in Objetivos : AjustarPorObjetivo(t, o)
    \/ \E k \in KcalDias : GerarMacros(k)
    \/ \E k \in KcalDias : DistribuirPorRefeicao(k)
    \/ \E ap \in Alvos, ac \in Alvos, ag \in Alvos : ComboParaRefeicao(ap, ac, ag)
    \/ \E e \in EntradasPlano : GerarPlano(e[1], e[2])
    \/ Retornar

Spec == Init /\ [][Next]_vars

\* the engine's life with the history of its plans: load, construct, and
\* gerar_plano any number of times
NextHistorico ==
    \/ \E df \in Tabelas : Carregar(df)
    \/ Construir
    \/ \E e \in EntradasHistorico : GerarPlanoLembrando(e[1], e[2])
    \/ Retornar

SpecHistorico == Init /\ [][NextHistorico]_vars

(***************************************************************************)
(* Properties.                                                             *)
(***************************************************************************)
Homem(p) == p.sexo \in {"masculino", "Masculino"}
Mulher(p) == p.sexo = "feminino"

\* 10*peso + 6.25*altura - 5*idade + k as one fraction
MifflinEsperado(p, k) ==
    Q(40 * p.peso.n * p.altura.d + 25 * p.altura.n * p.peso.d
        + (4 * k - 20 * p.idade) * p.peso.d * p.altura.d,
      4 * p.peso.d * p.altura.d)

\* the Mifflin-St Jeor value of a male or female patient
MifflinDoSexo(p) == MifflinEsperado(p, IF Homem(p) THEN 5 ELSE 0 - 161)

PacienteExemplo(p) ==
    /\ p.sexo = "masculino" /\ p.idade = 30
    /\ p.peso = I(80) /\ p.altura = I(178)

\* x is y rounded to the nearest integer: |x - y| <= 1/2
Proximo(x, y) == 2 * Abs(x * y.d - y.n) <= y.d

\* C1: calcular_tmb_equacao(p, "mifflin") is 10*weight + 6.25*height - 5*age
\* plus 5 for a male patient and minus 161 for a female one; the male of 30
\* years, 80 kg and 178 cm gets 1767.5 kcal.
C1_Mifflin ==
    (chamada.op = "calcular_tmb_equacao" /\ chamada.equacao = "mifflin") =>
        /\ Homem(chamada.p) => retorno = MifflinEsperado(chamada.p, 5)
        /\ Mulher(chamada.p) => retorno = MifflinEsperado(chamada.p, 0 - 161)
        /\ PacienteExemplo(chamada.p) => retorno = Q(17675, 10)

C1_Witness ==
    /\ chamada.op = "calcular_tmb_equacao" /\ chamada.equacao = "mifflin"
    /\ Mulher(chamada.p) /\ chamada.p.peso = Q(125, 2)
    /\ retorno = I(1159)

\* the activity factor of the claim's table, in thousandths
FatorEsperado(nivel) ==
    CASE nivel \in {"Sedentário", "sedentario"} -> 1200
      [] nivel = "Levemente ativo"               -> 1375
      [] nivel = "Moderadamente ativo"           -> 1550
      [] nivel = "Muito ativo"                   -> 1725
      [] nivel = "Extremamente ativo"            -> 1900
      [] OTHER                                   -> 1200

\* C2: the TDEE of gerar_plano is the principal BMR (the value of the chosen
\* equation) times the activity factor of the table sedentary 1.2, light
\* 1.375, moderate 1.55, high 1.725, extra 1.9, and 1.2 for a label that is
\* not in the table; the plan reports both rounded to the nearest integer.
C2_Tdee ==
    chamada.op = "gerar_plano" =>
        /\ retorno.tdee_exato =
               RMul(retorno.tmb, Q(FatorEsperado(chamada.p.nivel_atividade), 1000))
        /\ Proximo(retorno.tdee, retorno.tdee_exato)
        /\ Proximo(retorno.tmb_principal, retorno.tmb)
        /\ chamada.equacao = "mifflin" => retorno.tmb = MifflinDoSexo(chamada.p)
        /\ (PacienteExemplo(chamada.p) /\ chamada.equacao = "mifflin"
               /\ chamada.p.nivel_atividade = "Sedentário") => retorno.tdee = 2121

C2_Witness ==
    /\ chamada.op = "gerar_plano" /\ chamada.equacao = "mifflin"
    /\ PacienteExemplo(chamada.p) /\ chamada.p.nivel_atividade = "Atleta"
    /\ retorno.tdee_exato = I(2121)

Emagrecer == {"Emagrecimento", "Perda de peso"}
Ganhar == {"Ganho de massa", "HIPERTROFIA"}

\* C3: ajustar_por_objetivo gives 0.8*TDEE for a weight-loss goal, 1.1*TDEE
\* for a gain or hypertrophy goal and TDEE itself for every other label, so
\* for a positive TDEE the target is below it exactly for weight-loss goals
\* and above it exactly for gain goals.
C3_Objetivo ==
    chamada.op = "ajustar_por_objetivo" =>
        LET t == chamada.tdee
            o == chamada.objetivo
        IN  /\ o \in Emagrecer => 10 * retorno.n * t.d = 8 * t.n * retorno.d
            /\ o \in Ganhar => 10 * retorno.n * t.d = 11 * t.n * retorno.d
            /\ o \notin (Emagrecer \cup Ganhar) => retorno = t
            /\ t.n > 0 => /\ (retorno.n * t.d < t.n * retorno.d) <=> o \in Emagrecer
                          /\ (retorno.n * t.d > t.n * retorno.d) <=> o \in Ganhar

C3_Witness ==
    /\ chamada.op = "ajustar_por_objetivo"
    /\ chamada.tdee = I(2121) /\ chamada.objetivo = "Perda de peso"
    /\ retorno = Q(16968, 10)

\* the macros m are those of the daily target k: 30%/4, 45%/4 and 25%/9 of k
\* to the nearest integer, and their energy is k up to the rounding
MacrosDe(m, k) ==
    /\ Proximo(m.kcal, k)
    /\ Proximo(m.proteina_g, Q(3 * k.n, 40 * k.d))
    /\ Proximo(m.carbo_g, Q(9 * k.n, 80 * k.d))
    /\ Proximo(m.gordura_g, Q(k.n, 36 * k.d))
    /\ 2 * Abs((4 * m.proteina_g + 4 * m.carbo_g + 9 * m.gordura_g) * k.d - k.n)
           <= 17 * k.d

\* C4: gerar_macros gives protein = 30% of the kcal / 4, carbohydrate = 45% of
\* the kcal / 4 and fat = 25% of the kcal / 9, each to the nearest integer,
\* so 4*protein + 4*carbohydrate + 9*fat is the daily kcal up to the rounding
\* (at most (4 + 4 + 9)/2 kcal away).
C4_Macros ==
    /\ chamada.op = "gerar_macros" => MacrosDe(retorno, chamada.kcal_dia)
    /\ chamada.op = "gerar_plano" => MacrosDe(retorno.macros, retorno.kcal_ajustada)

C4_Witness ==
    /\ chamada.op = "gerar_macros" /\ chamada.kcal_dia = Q(16968, 10)
    /\ retorno = [kcal |-> 1697, proteina_g |-> 127, carbo_g |-> 191, gordura_g |-> 47]

Reconhecidas == {"mifflin", "harris-benedict", "owen", "cunningham"}

\* 500 + 22 * peso * (1 - gc/100) as one fraction
CunninghamEsperado(p) ==
    LET gc == p.gordura_corporal
    IN  Q(50000 * p.peso.d * gc.d + 22 * p.peso.n * (100 * gc.d - gc.n),
          100 * p.peso.d * gc.d)

\* C5: calcular_tmb_equacao returns the Mifflin-St Jeor value for every
\* identifier that is not one of the four recognised ones, and for Cunningham
\* the Mifflin-St Jeor value when the patient has no body-fat percentage and
\* 500 + 22 * lean mass (lean mass = weight * (1 - bodyfat/100)) otherwise.
C5_Padrao ==
    (chamada.op = "calcular_tmb_equacao" /\ (Homem(chamada.p) \/ Mulher(chamada.p))) =>
        LET p == chamada.p
        IN  /\ Lower(chamada.equacao) \notin Reconhecidas => retorno = MifflinDoSexo(p)
            /\ (chamada.equacao = "cunningham" /\ p.gordura_corporal = None)
                   => retorno = MifflinDoSexo(p)
            /\ (chamada.equacao = "cunningham" /\ p.gordura_corporal # None)
                   => retorno = CunninghamEsperado(p)

C5_Witness ==
    /\ chamada.op = "calcular_tmb_equacao" /\ chamada.equacao = "katch-mcardle"
    /\ PacienteExemplo(chamada.p)
    /\ retorno = Q(17675, 10)

RECURSIVE SomaFracoes(_)
SomaFracoes(refs) ==
    IF Len(refs) = 0 THEN I(0)
    ELSE RAdd(Head(refs).fracao, SomaFracoes(Tail(refs)))

NomesRefeicoes ==
    <<"Café da manhã", "Lanche da manhã", "Almoço", "Lanche da tarde", "Jantar", "Ceia">>

\* the plan lists the six slots in the order breakfast, morning snack, lunch,
\* afternoon snack, dinner, supper with the shares pct (percent) of the daily
\* kcal of the plan
SeisRefeicoes(plano, pct) ==
    /\ Len(plano.refeicoes) = 6
    /\ \A i \in 1..6 :
          /\ plano.refeicoes[i].refeicao = NomesRefeicoes[i]
          /\ plano.refeicoes[i].fracao = Q(pct[i], 100)
          /\ Proximo(plano.refeicoes[i].kcal, Q(pct[i] * plano.macros.kcal, 100))

\* C7 as stated: the six meals are breakfast, morning snack, lunch, afternoon
\* snack, dinner, evening snack with 18%, 10%, 32%, 12%, 18% and 10% of the
\* daily calories.
C7_Original ==
    chamada.op = "gerar_plano" => SeisRefeicoes(retorno, <<18, 10, 32, 12, 18, 10>>)

\* C7 amended: the six meals are breakfast, morning snack, lunch, afternoon
\* snack, dinner, supper, in this order, with 20%, 10%, 30%, 10%, 20% and 10%
\* of the daily calories.
C7_Esquema ==
    chamada.op = "gerar_plano" => SeisRefeicoes(retorno, <<20, 10, 30, 10, 20, 10>>)

C7_Witness ==
    /\ chamada.op = "gerar_plano"
    /\ retorno.macros.kcal = 1697
    /\ [i \in 1..6 |-> retorno.refeicoes[i].kcal] = <<339, 170, 509, 170, 339, 170>>

\* the bullet lines of the suggestions the last call returned
LinhasListadas ==
    IF chamada.op = "_combo_para_refeicao"
    THEN {retorno.linhas[i] : i \in 1..Len(retorno.linhas)}
    ELSE IF chamada.op = "gerar_plano"
    THEN UNION {{retorno.receitas[m].combo.linhas[i] :
                    i \in 1..Len(retorno.receitas[m].combo.linhas)} :
                m \in 1..Len(retorno.receitas)}
    ELSE {}

\* C8: every listed portion is at least 20 g and at most 200 g (so strictly
\* positive), and a role whose target is zero or negative, so that the
\* computed quantity is not positive, has no line.
C8_Gramas ==
    /\ \A l \in LinhasListadas : l.gramas > 0 /\ l.gramas >= 20 /\ l.gramas <= 200
    /\ chamada.op = "_combo_para_refeicao" =>
          /\ chamada.alvo_prot.n <= 0 => \A l \in LinhasListadas : l.papel # "proteina"
          /\ chamada.alvo_carb.n <= 0 => \A l \in LinhasListadas : l.papel # "carbo"
          /\ chamada.alvo_gord.n <= 0 => \A l \in LinhasListadas : l.papel # "gordura"

C8_Witness ==
    /\ chamada.op = "_combo_para_refeicao"
    /\ chamada.alvo_prot = I(1) /\ chamada.alvo_carb = Q(251, 2) /\ chamada.alvo_gord = I(0)
    /\ retorno.tipo = "itens"
    /\ [i \in 1..Len(retorno.linhas) |-> retorno.linhas[i].gramas] = <<20, 200>>

\* every row of the engine's table called nome has an energy cell that is a
\* number greater than zero
EnergiaPositiva(nome) ==
    \A i \in 1..Len(engine.df_alimentos.rows) :
        LET row == engine.df_alimentos.rows[i]
        IN  Cell(engine.df_alimentos, row, engine.col.nome) = nome =>
                LET kcal == Cell(engine.df_alimentos, row, engine.col.kcal)
                IN  kcal.t = "num" /\ kcal.v > 0

\* C9 as stated: a row whose energy per 100 g is zero, negative or missing is
\* never a suggested food.
C9_Original ==
    \A l \in LinhasListadas : EnergiaPositiva(l.nome)

TemPapel(combo, papel) == \E i \in 1..Len(combo.linhas) : combo.linhas[i].papel = papel

\* gerar_plano returned one suggestion per meal, in the order of the meals
UmaSugestaoPorRefeicao(plano) ==
    /\ Len(plano.receitas) = Len(plano.refeicoes)
    /\ \A i \in 1..Len(plano.receitas) :
          plano.receitas[i].refeicao = plano.refeicoes[i].refeicao

\* C10 as stated: gerar_plano returns a suggestion for every meal, and each
\* meal omits the item of a role without eligible food and lists the item of
\* every role that has one (and a positive target).
C10_Original ==
    chamada.op = "gerar_plano" =>
        /\ UmaSugestaoPorRefeicao(retorno)
        /\ \A i \in 1..Len(retorno.receitas) :
              LET r == retorno.receitas[i]
              IN  /\ TemPapel(r.combo, "proteina") <=>
                         (Len(engine.fontes.proteina) > 0 /\ r.prot_ref > 0)
                  /\ TemPapel(r.combo, "carbo") <=>
                         (Len(engine.fontes.carbo) > 0 /\ r.carb_ref > 0)
                  /\ TemPapel(r.combo, "gordura") <=>
                         (Len(engine.fontes.gordura) > 0 /\ r.gord_ref > 0)

\* C10 amended: gerar_plano returns a suggestion for every meal; when protein
\* or carbohydrate has no eligible food every suggestion is the generic text
\* and lists no item at all; otherwise each meal lists the protein and the
\* carbohydrate item and omits only the fat item when fat has no eligible food
\* (roles with a positive target).
C10_Omissao ==
    chamada.op = "gerar_plano" =>
        /\ UmaSugestaoPorRefeicao(retorno)
        /\ \A i \in 1..Len(retorno.receitas) :
              LET r == retorno.receitas[i]
              IN  IF Len(engine.fontes.proteina) = 0 \/ Len(engine.fontes.carbo) = 0
                  THEN r.combo.tipo = "generico" /\ r.combo.linhas = <<>>
                  ELSE /\ TemPapel(r.combo, "proteina") <=> r.prot_ref > 0
                       /\ TemPapel(r.combo, "carbo") <=> r.carb_ref > 0
                       /\ TemPapel(r.combo, "gordura") <=>
                              (Len(engine.fontes.gordura) > 0 /\ r.gord_ref > 0)

C10_Witness ==
    /\ chamada.op = "gerar_plano"
    /\ Len(engine.fontes.proteina) > 0 /\ Len(engine.fontes.carbo) > 0
    /\ Len(engine.fontes.gordura) = 0
    /\ \A i \in 1..Len(retorno.receitas) :
          /\ retorno.receitas[i].gord_ref > 0
          /\ Len(retorno.receitas[i].combo.linhas) = 2

\* the header cols is one of the layouts that leave out the energy, the
\* protein, the carbohydrate or the fat column of the pool (columns 2 to 5)
FaltaNutriente(cols) ==
    \E f \in Formatos :
        /\ f.cols = cols
        /\ \E k \in 2..5 : \A j \in 1..Len(f.idx) : f.idx[j] # k

\* C11: when the loaded table lacks a required nutrient column (energy,
\* protein, carbohydrate or fat), constructing the engine raises: the program
\* is in the loaded or in the error state, never ready; no engine exists, and
\* no method of the engine (gerar_plano included) is ever called.
C11_Falha ==
    (df_entrada # None /\ FaltaNutriente(df_entrada.cols)) =>
        /\ estado \in {"carregado", "erro"}
        /\ engine = None
        /\ chamada.op = "nenhuma" /\ retorno = None

C11_Witness ==
    /\ estado = "erro" /\ engine = None
    /\ df_entrada.cols = <<"Alimento", "Energia (kcal)", "Proteína (g)", "Carboidrato (g)">>
    /\ Len(df_entrada.rows) = 2

\* C12 as stated: a loaded table that has its columns but no rows is rejected
\* with an error when the engine is constructed: the engine never gets ready
\* and gerar_plano never returns a plan for it.
C12_Original ==
    (df_entrada # None /\ Len(df_entrada.rows) = 0) =>
        /\ estado \in {"carregado", "erro"}
        /\ engine = None
        /\ chamada.op # "gerar_plano"

C14_Imutavel ==
    [][ /\ estado = "carregado" => df_entrada' = df_entrada
        /\ estado = "pronto" =>
              /\ estado' = "pronto"
              /\ df_entrada' = df_entrada
              /\ engine' = engine ]_vars

C14_Witness ==
    /\ estado = "pronto" /\ chamada.op = "gerar_plano" /\ entre = 1
    /\ df_entrada.cols[1] = " Nome " /\ df_entrada.cols[2] = "KCAL"
    /\ engine.df_alimentos.cols[1] = "nome" /\ engine.df_alimentos.cols[2] = "kcal"
    /\ Len(engine.df_alimentos.rows) = 3
    /\ Len(engine.fontes.proteina) = 1

\* the header cols has a column that is one of the accepted names of the
\* k-th canonical name, after stripping and lower-casing
TemSinonimo(cols, k) ==
    \E i \in 1..Len(cols) : Lower(Strip(cols[i])) \in map_cols[k].options

\* C15 as stated: when load_taco_database succeeds the returned table has
\* columns named kcal, proteina, carbo and gordura, whichever accepted
\* synonym the file used, and it raises when one of the four has no accepted
\* synonym in the file.
C15_Original ==
    chamada.op = "load_taco_database" =>
        IF \A k \in 1..4 : TemSinonimo(chamada.lido.cols, k)
        THEN /\ retorno.ok
             /\ \A k \in 1..4 :
                   \E i \in 1..Len(retorno.df.cols) : retorno.df.cols[i] = map_cols[k].final
        ELSE ~retorno.ok

RECURSIVE SomaKcal(_)
SomaKcal(refs) ==
    IF Len(refs) = 0 THEN 0 ELSE Head(refs).kcal + SomaKcal(Tail(refs))

\* the six meals refs of the daily macros: the kcal of each meal is the daily
\* (rounded) kcal times the fraction of the meal, to the nearest integer, and
\* the kcal of the six meals sum to the daily kcal up to 2 kcal
KcalDasRefeicoes(refs, macros) ==
    /\ Len(refs) = 6
    /\ \A i \in 1..6 : Proximo(refs[i].kcal, RMul(I(macros.kcal), refs[i].fracao))
    /\ Abs(SomaKcal(refs) - macros.kcal) <= 2

\* C16: for every non-negative daily kcal target, each meal's kcal is
\* round(daily rounded kcal * fraction of the meal), and the sum of the six
\* meals' kcal differs from the daily kcal of the plan by at most 2 kcal.
C16_SomaKcal ==
    /\ (chamada.op = "distribuir_por_refeicao" /\ chamada.macros.kcal >= 0) =>
           KcalDasRefeicoes(retorno, chamada.macros)
    /\ (chamada.op = "gerar_plano" /\ retorno.macros.kcal >= 0) =>
           KcalDasRefeicoes(retorno.refeicoes, retorno.macros)

C16_Witness ==
    /\ chamada.op = "distribuir_por_refeicao" /\ chamada.macros.kcal = 15
    /\ [i \in 1..6 |-> retorno[i].kcal] = <<3, 2, 4, 2, 3, 2>>
    /\ SomaKcal(retorno) = 16

====
